---- MODULE Spec2Model ----
(***************************************************************************)
(* The Diagnosis Request Client of doc-zaddy: the React component App and  *)
(* its submit handler handleDiagnose, in its two source variants           *)
(*   "local"        src/unnamed/part_000        (API_BASE hardcoded)       *)
(*   "configurable" src/doc-zaddy-ui/src/App.js (API_BASE from the env)    *)
(*                                                                         *)
(* A JavaScript string is a sequence of one-character strings; the fixed   *)
(* user-facing messages and the server's message field are TLA+ strings.   *)
(* handleDiagnose is an async function: it runs synchronously up to its    *)
(* first await (the fetch), and each later await (fetch, resp.text(),      *)
(* resp.json()) is a suspension point where other events may run.          *)
(***************************************************************************)
EXTENDS Integers, Sequences, FiniteSets, TLC

VARIABLES
    variant,      \* which source file is running
    env,          \* process.env.REACT_APP_API_URL
    symptoms,     \* useState("")    raw text of the textarea
    results,      \* useState([])    the result set
    loading,      \* useState(false)
    error,        \* useState("")
    calls,        \* suspended handleDiagnose invocations, by issue number
    issued,       \* number of fetch() calls made so far
    submits,      \* number of handleDiagnose invocations that passed validation
    rejected,     \* the latest handleDiagnose invocation threw synchronously
    overlapped,   \* the latest fetch was issued while another call was in flight
    interleaved,  \* the latest handleDiagnose was invoked while a call was in flight
    twin          \* the local variant run beside this one on the same events

vars == <<variant, env, symptoms, results, loading, error, calls, issued,
          submits, rejected, overlapped, interleaved, twin>>

view == <<results, loading, error>>

(***************************************************************************)
(* Bounds                                                                  *)
(***************************************************************************)
\* handleDiagnose invocations that reach the fetch, per page view
MaxCalls == 2

(***************************************************************************)
(* Text                                                                    *)
(***************************************************************************)
\* the characters the regular expression class \s and String.trim treat as blank
WhiteSpace == {" ", "\t", "\n"}

Comma == ","

\* texts typed into the textarea: "", " , ", "f" and "f, c"
Inputs ==
    { <<>>,
      <<" ", ",", " ">>,
      <<"f">>,
      <<"f", ",", " ", "c">> }

\* texts for the checks of the tokenization alone: every text of at most MaxLen
\* characters of Alphabet, and the documented example
MaxLen == 3

Alphabet == {"f", "c", " ", "\t", ","}

Example ==
    <<"f", "e", "v", "e", "r", ",", " ", "c", "o", "u", "g", "h", " ", " ", " ",
      "h", "e", "a", "d", "a", "c", "h", "e">>

Texts == UNION {[1..m -> Alphabet] : m \in 0..MaxLen} \cup {Example}

\* end (exclusive) of the maximal run of characters of S that starts at q
RECURSIVE RunEnd(_, _, _)
RunEnd(s, q, S) ==
    IF q <= Len(s) /\ s[q] \in S THEN RunEnd(s, q + 1, S) ELSE q

\* a slip: the regular expression splits on commas only
MatchAt_CommaOnly(s, q) ==
    IF s[q] = Comma THEN RunEnd(s, q, {Comma}) ELSE 0

\* /\s+|,+/ matched at position q: the end (exclusive) of the match, 0 for no match
MatchAt(s, q) ==
    IF s[q] \in WhiteSpace THEN RunEnd(s, q, WhiteSpace)
    ELSE IF s[q] = Comma THEN RunEnd(s, q, {Comma})
    ELSE 0

\* String.prototype.split's loop: p starts the current piece, q is the scan position
RECURSIVE SplitFrom(_, _, _, _)
SplitFrom(s, p, q, acc) ==
    IF q > Len(s) THEN Append(acc, SubSeq(s, p, Len(s)))
    ELSE LET e == MatchAt(s, q)
         IN  IF e = 0 THEN SplitFrom(s, p, q + 1, acc)
             ELSE SplitFrom(s, e, e, Append(acc, SubSeq(s, p, q - 1)))

\* symptoms.split(/\s+|,+/): the empty string splits into one empty piece
Split(s) ==
    IF Len(s) = 0 THEN <<s>> ELSE SplitFrom(s, 1, 1, <<>>)

RECURSIVE TrimStart(_)
TrimStart(t) ==
    IF Len(t) > 0 /\ t[1] \in WhiteSpace THEN TrimStart(Tail(t)) ELSE t

RECURSIVE TrimEnd(_)
TrimEnd(t) ==
    IF Len(t) > 0 /\ t[Len(t)] \in WhiteSpace
    THEN TrimEnd(SubSeq(t, 1, Len(t) - 1)) ELSE t

\* (t) => t.trim()
Trim(t) == TrimEnd(TrimStart(t))

\* a slip: the empty pieces are not dropped
Boolean_KeepsAll(t) == TRUE

\* Boolean(t) of a string: the empty string is falsy
Boolean(t) == Len(t) > 0

\* symptoms.split(/\s+|,+/).map((t) => t.trim()).filter(Boolean)
Tokenize(s) ==
    LET pieces  == Split(s)
        trimmed == [k \in 1..Len(pieces) |-> Trim(pieces[k])]
    IN  SelectSeq(trimmed, Boolean)

(***************************************************************************)
(* The server's answers                                                    *)
(***************************************************************************)
\* result entries, confidence in thousandths (0.67 is 670)
Entries ==
    { [disease |-> "common_cold", matched |-> 2, total |-> 3,
       hasConfidence |-> TRUE, confidence |-> 670],
      [disease |-> "flu", matched |-> 1, total |-> 4,
       hasConfidence |-> FALSE, confidence |-> 0] }

Cold == CHOOSE e \in Entries : e.disease = "common_cold"
Flu  == CHOOSE e \in Entries : e.disease = "flu"

\* JSON values a results field carries: an array of entries, or null
JsonArray(a) == [t |-> "array", v |-> a]
JsonNull     == [t |-> "null", v |-> <<>>]

\* a slip: the test is on the length, so an empty array counts as no results
Truthy_NonEmpty(j) == j.t = "array" /\ Len(j.v) > 0

\* ToBoolean of such a value: every array (the empty one too) is truthy
Truthy(j) == j.t = "array"

\* a response body: text that is no JSON, the JSON value null, or a JSON object
\* whose results and message fields may each be absent
TextBody == [kind |-> "text", hasResults |-> FALSE, results |-> JsonNull,
             hasMessage |-> FALSE, message |-> ""]
NullBody == [kind |-> "null", hasResults |-> FALSE, results |-> JsonNull,
             hasMessage |-> FALSE, message |-> ""]
NoBody   == [kind |-> "none", hasResults |-> FALSE, results |-> JsonNull,
             hasMessage |-> FALSE, message |-> ""]

WithResults(j) == [kind |-> "object", hasResults |-> TRUE, results |-> j,
                   hasMessage |-> FALSE, message |-> ""]
WithMessage(m) == [kind |-> "object", hasResults |-> FALSE, results |-> JsonNull,
                   hasMessage |-> TRUE, message |-> m]
EmptyObject    == [kind |-> "object", hasResults |-> FALSE, results |-> JsonNull,
                   hasMessage |-> FALSE, message |-> ""]

ResultArrays == { <<>>, <<Flu, Cold>> }

Messages == { "no match", "" }

Bodies ==
    {TextBody, NullBody, EmptyObject}
        \cup {WithResults(JsonArray(a)) : a \in ResultArrays}
        \cup {WithResults(JsonNull)}
        \cup {WithMessage(m) : m \in Messages}

\* what fetch resolves with: resp.ok is true for a 2xx status
Responses ==
    {[ok |-> TRUE, status |-> 200, statusText |-> "OK", body |-> b] : b \in Bodies}
        \cup {[ok |-> FALSE, status |-> 500,
               statusText |-> "Internal Server Error", body |-> TextBody]}

NoResp == [ok |-> FALSE, status |-> 0, statusText |-> "", body |-> NoBody]

(***************************************************************************)
(* handleDiagnose                                                          *)
(***************************************************************************)
ValidationMsg == "Please enter at least one symptom."
GenericMsg    == "Failed to fetch diagnosis. Please check API connection."
FallbackMsg   == "No results returned"

Unset == "<unset>"
EnvValues == {Unset, "https://staging.example"}

\* const API_BASE = ...
API_BASE ==
    IF variant = "local" THEN "http://127.0.0.1:8001"
    ELSE IF env # Unset /\ env # "" THEN env
    ELSE "https://doc-zaddy.onrender.com"

\* the arguments of fetch(...)
Request(tokens) ==
    [method  |-> "POST",
     url     |-> <<API_BASE, "/api/diagnose">>,
     headers |-> [ContentType |-> "application/json"],
     body    |-> [symptoms |-> tokens]]

View == [results |-> results, loading |-> loading, error |-> error]

\* a slip: the previous error is not cleared
Clear_KeepsError(v) == [v EXCEPT !.results = <<>>]

\* a slip: the previous result set is not cleared
Clear_KeepsResults(v) == [v EXCEPT !.error = ""]

\* setError(""); setResults([]);
Clear(v) == [v EXCEPT !.error = "", !.results = <<>>]

\* a slip: setLoading(true) moved above the validation
ValidationError_Loading(v) == [v EXCEPT !.error = ValidationMsg, !.loading = TRUE]

\* setError("Please enter at least one symptom.");
ValidationError(v) == [v EXCEPT !.error = ValidationMsg]

\* the statement after setError in the validation branch: return; in the local
\* variant, the undeclared identifier s (a ReferenceError) in the configurable one
ValidationThrows == variant = "configurable"

\* a slip: setLoading(true) left out
StartLoading_Forgotten(v) == v

\* setLoading(true);
StartLoading(v) == [v EXCEPT !.loading = TRUE]

\* a slip: the message field is ignored
MessageOr_AlwaysFallback(data) == FallbackMsg

\* data.message || "No results returned"
MessageOr(data) ==
    IF data.hasMessage /\ data.message # "" THEN data.message ELSE FallbackMsg

\* a slip: the entries are reordered on the client
OnData_Reordered(v, data) ==
    IF data.hasResults /\ Truthy(data.results)
    THEN [v EXCEPT !.results =
              [k \in 1..Len(data.results.v) |->
                  data.results.v[Len(data.results.v) + 1 - k]]]
    ELSE [v EXCEPT !.error = MessageOr(data)]

\* if (data.results) setResults(data.results); else setError(...)
OnData(v, data) ==
    IF data.hasResults /\ Truthy(data.results)
    THEN [v EXCEPT !.results = data.results.v]
    ELSE [v EXCEPT !.error = MessageOr(data)]

\* a slip: the cause is shown to the user
Catch_ShowsCause(v) == [v EXCEPT !.error = "API error 500: Internal Server Error"]

\* a change: a failure also clears the result set
Catch_ClearsResults(v) == [v EXCEPT !.error = GenericMsg, !.results = <<>>]

\* catch (err) { console.error(...); setError(GenericMsg); }
Catch(v) == [v EXCEPT !.error = GenericMsg]

\* a slip: loading is flipped, not reset
Finally_Toggles(v) == [v EXCEPT !.loading = ~v.loading]

\* a slip: loading is not reset
Finally_Skipped(v) == v

\* finally { setLoading(false); }
Finally(v) == [v EXCEPT !.loading = FALSE]

\* the React state after the handler's setters have run
Render(v) ==
    /\ results' = v.results
    /\ loading' = v.loading
    /\ error' = v.error

InFlight == DOMAIN calls

Without(i) == [j \in InFlight \ {i} |-> calls[j]]

(***************************************************************************)
(* The local variant beside the running one: the same handler code of      *)
(* part_000, applied to a state of its own on the same events.  The input  *)
(* text is an event, so the stored input is the one in symptoms.           *)
(***************************************************************************)
\* no second run
NoTwin == [on |-> FALSE, view |-> [results |-> <<>>, loading |-> FALSE, error |-> ""],
           calls |-> << >>, issued |-> 0, rejected |-> FALSE]

\* the local variant after construction
LocalInit == [NoTwin EXCEPT !.on = TRUE]

\* the arguments of fetch(...) with const API_BASE = "http://127.0.0.1:8001"
LocalRequest(tokens) ==
    [Request(tokens) EXCEPT !.url = <<"http://127.0.0.1:8001", "/api/diagnose">>]

\* handleDiagnose up to its first await; the validation branch ends in return;
LocalSubmit(t, tokens) ==
    IF ~t.on THEN t
    ELSE IF Len(tokens) = 0
         THEN [t EXCEPT !.view = ValidationError(Clear(@)), !.rejected = FALSE]
         ELSE [t EXCEPT !.view = StartLoading(Clear(@)),
                        !.calls = (t.issued + 1 :> [request |-> LocalRequest(tokens),
                                                    pc |-> "fetch",
                                                    resp |-> NoResp]) @@ @,
                        !.issued = @ + 1,
                        !.rejected = FALSE]

\* whether call i of the local variant waits at the await named pc
LocalAt(t, i, pc) == t.on /\ i \in DOMAIN t.calls /\ t.calls[i].pc = pc

LocalWithout(t, i) == [j \in DOMAIN t.calls \ {i} |-> t.calls[j]]

LocalFetchRejects(t, i) ==
    IF LocalAt(t, i, "fetch")
    THEN [t EXCEPT !.view = Finally(Catch(@)), !.calls = LocalWithout(t, i)]
    ELSE t

LocalFetchResolves(t, i, resp) ==
    IF LocalAt(t, i, "fetch")
    THEN [t EXCEPT !.calls[i].resp = resp,
                   !.calls[i].pc = IF resp.ok THEN "json" ELSE "text"]
    ELSE t

LocalTextSettles(t, i) ==
    IF LocalAt(t, i, "text")
    THEN [t EXCEPT !.view = Finally(Catch(@)), !.calls = LocalWithout(t, i)]
    ELSE t

LocalJsonSettles(t, i) ==
    IF LocalAt(t, i, "json")
    THEN [t EXCEPT !.view = IF t.calls[i].resp.body.kind = "object"
                             THEN Finally(OnData(@, t.calls[i].resp.body))
                             ELSE Finally(Catch(@)),
                   !.calls = LocalWithout(t, i)]
    ELSE t

Init ==
    /\ variant \in {"local", "configurable"}
    /\ env \in IF variant = "local" THEN {Unset} ELSE EnvValues
    /\ symptoms = <<>>
    /\ results = <<>>
    /\ loading = FALSE
    /\ error = ""
    /\ calls = << >>
    /\ issued = 0
    /\ submits = 0
    /\ rejected = FALSE
    /\ overlapped = FALSE
    /\ interleaved = FALSE
    /\ twin = NoTwin

\* a change: typing also dismisses the error
UpdateInput_ClearsError(text) ==
    /\ symptoms' = text
    /\ error' = ""
    /\ UNCHANGED <<variant, env, results, loading, calls, issued,
                   submits, rejected, overlapped, interleaved, twin>>

\* onChange={(e) => setSymptoms(e.target.value)}
UpdateInput(text) ==
    /\ symptoms' = text
    /\ UNCHANGED <<variant, env, results, loading, error, calls, issued,
                   submits, rejected, overlapped, interleaved, twin>>

\* handleDiagnose up to its first await. The handler has no guard of its own: the
\* button of the local variant is disabled while loading, the configurable
\* variant renders no control, so the handler is taken as callable in every state
\* (issued < MaxCalls bounds the run, not the program).
Submit ==
    LET tokens == Tokenize(symptoms)
    IN  /\ interleaved' = (InFlight # {})
        /\ IF Len(tokens) = 0
           THEN /\ Render(ValidationError(Clear(View)))
                /\ rejected' = ValidationThrows
                /\ UNCHANGED <<calls, issued, submits, overlapped>>
           ELSE /\ issued < MaxCalls
                /\ Render(StartLoading(Clear(View)))
                /\ calls' = (issued + 1 :> [request |-> Request(tokens),
                                            pc |-> "fetch",
                                            resp |-> NoResp]) @@ calls
                /\ issued' = issued + 1
                /\ submits' = submits + 1
                /\ rejected' = FALSE
                /\ overlapped' = (InFlight # {})
        /\ twin' = LocalSubmit(twin, tokens)
        /\ UNCHANGED <<variant, env, symptoms>>

\* a slip: a failed fetch is issued again
FetchRejects_Retries(i) ==
    /\ i \in InFlight
    /\ calls[i].pc = "fetch"
    /\ issued < MaxCalls
    /\ issued' = issued + 1
    /\ UNCHANGED <<variant, env, symptoms, results, loading, error, calls,
                   submits, rejected, overlapped, interleaved, twin>>

\* await fetch(...) rejects: a network failure
FetchRejects(i) ==
    /\ i \in InFlight
    /\ calls[i].pc = "fetch"
    /\ Render(Finally(Catch(View)))
    /\ calls' = Without(i)
    /\ twin' = LocalFetchRejects(twin, i)
    /\ UNCHANGED <<variant, env, symptoms, issued, submits, rejected,
                   overlapped, interleaved>>

\* await fetch(...) resolves with a response; the handler goes on to await
\* resp.text() (not ok) or resp.json() (ok)
FetchResolves(i, resp) ==
    /\ i \in InFlight
    /\ calls[i].pc = "fetch"
    /\ calls' = [calls EXCEPT ![i].resp = resp,
                              ![i].pc = IF resp.ok THEN "json" ELSE "text"]
    /\ twin' = LocalFetchResolves(twin, i, resp)
    /\ UNCHANGED <<variant, env, symptoms, results, loading, error, issued,
                   submits, rejected, overlapped, interleaved>>

\* await resp.text().catch(() => resp.statusText) settles; throw new Error(...)
TextSettles(i, readable) ==
    /\ i \in InFlight
    /\ calls[i].pc = "text"
    /\ LET txt == IF readable THEN calls[i].resp.body.kind
                  ELSE calls[i].resp.statusText
           err == [name |-> "Error", status |-> calls[i].resp.status, txt |-> txt]
       IN  err.name = "Error" /\ Render(Finally(Catch(View)))
    /\ calls' = Without(i)
    /\ twin' = LocalTextSettles(twin, i)
    /\ UNCHANGED <<variant, env, symptoms, issued, submits, rejected,
                   overlapped, interleaved>>

\* await resp.json() settles: a SyntaxError for a body that is no JSON, a
\* TypeError on data.results when the JSON value is null, else the two branches
JsonSettles(i) ==
    /\ i \in InFlight
    /\ calls[i].pc = "json"
    /\ LET data == calls[i].resp.body
       IN  IF data.kind = "object"
           THEN Render(Finally(OnData(View, data)))
           ELSE Render(Finally(Catch(View)))
    /\ calls' = Without(i)
    /\ twin' = LocalJsonSettles(twin, i)
    /\ UNCHANGED <<variant, env, symptoms, issued, submits, rejected,
                   overlapped, interleaved>>

Next ==
    \/ \E text \in Inputs : UpdateInput(text)
    \/ Submit
    \/ \E i \in 1..MaxCalls : FetchRejects(i)
    \/ \E i \in 1..MaxCalls, resp \in Responses : FetchResolves(i, resp)
    \/ \E i \in 1..MaxCalls, readable \in BOOLEAN : TextSettles(i, readable)
    \/ \E i \in 1..MaxCalls : JsonSettles(i)

Spec == Init /\ [][Next]_vars

\* disabled={loading} on the button of the local variant
Disabled == loading

\* onClick={handleDiagnose}: a disabled button dispatches no click
Click == ~Disabled /\ Submit

\* the page as the local variant renders it: handleDiagnose only through the button
ButtonNext ==
    \/ \E text \in Inputs : UpdateInput(text)
    \/ Click
    \/ \E i \in 1..MaxCalls : FetchRejects(i)
    \/ \E i \in 1..MaxCalls, resp \in Responses : FetchResolves(i, resp)
    \/ \E i \in 1..MaxCalls, readable \in BOOLEAN : TextSettles(i, readable)
    \/ \E i \in 1..MaxCalls : JsonSettles(i)

ButtonSpec == Init /\ variant = "local" /\ [][ButtonNext]_vars

\* every issued call eventually settles: the claims' assumption on the network
FairSpec ==
    /\ Spec
    /\ \A i \in 1..MaxCalls :
          /\ WF_vars(FetchRejects(i) \/ \E resp \in Responses : FetchResolves(i, resp))
          /\ WF_vars(\E readable \in BOOLEAN : TextSettles(i, readable))
          /\ WF_vars(JsonSettles(i))

(***************************************************************************)
(* Vocabulary of the properties                                            *)
(***************************************************************************)
\* this step is the end of call i: its handler ran to completion
Resolves(i) == i \in InFlight /\ i \notin DOMAIN calls'

\* this step is a handleDiagnose invocation whose input has no token
ValidationFails == Submit /\ Len(Tokenize(symptoms)) = 0

\* this step is a handleDiagnose invocation that passed validation
PassesValidation == submits' = submits + 1

\* call c ends with a 2xx response whose JSON object has a results array
AnswersResultsArray(c) ==
    /\ c.pc = "json" /\ c.resp.ok /\ c.resp.body.kind = "object"
    /\ c.resp.body.hasResults /\ c.resp.body.results.t = "array"

\* call c ends with a 2xx response whose JSON object has no results field
AnswersNoResultsField(c) ==
    /\ c.pc = "json" /\ c.resp.ok /\ c.resp.body.kind = "object"
    /\ ~c.resp.body.hasResults

\* call c ends in a network failure, a non-2xx status or an unparseable body
Fails(c) ==
    \/ c.pc = "fetch"
    \/ c.pc = "text" /\ ~c.resp.ok
    \/ c.pc = "json" /\ c.resp.body.kind = "text"

(***************************************************************************)
(* C1: a handleDiagnose invocation whose input has no token sets error to  *)
(* the validation message, issues no call, does not touch loading and      *)
(* returns normally; no call in flight carries an empty symptoms list.     *)
(***************************************************************************)
C1_EmptyInputStopsBeforeNetwork ==
    [][ /\ ValidationFails =>
              /\ error' = ValidationMsg
              /\ calls' = calls /\ issued' = issued
              /\ loading' = loading
              /\ ~rejected'
        /\ \A i \in DOMAIN calls' : Len(calls'[i].request.body.symptoms) > 0 ]_vars

C3_LoadingOnlyWhileInFlight == loading => InFlight # {}

C3_Witness == loading /\ Cardinality(InFlight) = 2

C5_SoleCallFailureIsGeneric ==
    [][ \A i \in InFlight :
          (Resolves(i) /\ Fails(calls[i]) /\ ~overlapped) =>
              /\ error' = GenericMsg
              /\ results' = <<>>
              /\ ~loading' ]_vars

C5_Witness ==
    /\ error = GenericMsg /\ results = <<>> /\ ~loading
    /\ InFlight = {} /\ issued > 0 /\ ~overlapped

(***************************************************************************)
(* C6 as claimed: a call that was the only call in flight and is answered  *)
(* 2xx with a JSON object without a results field leaves error equal to    *)
(* the message field whenever that field is present (the empty string      *)
(* too) and to the fallback only when it is absent; the result set is      *)
(* empty and loading false.                                                *)
(***************************************************************************)
C6_MessageShownWheneverPresent ==
    [][ \A i \in InFlight :
          (Resolves(i) /\ AnswersNoResultsField(calls[i]) /\ ~overlapped) =>
              /\ error' = IF calls[i].resp.body.hasMessage
                          THEN calls[i].resp.body.message
                          ELSE "No results returned"
              /\ results' = <<>>
              /\ ~loading' ]_vars

(***************************************************************************)
(* C6 amended: error is the message field when it is present and not       *)
(* empty, and the fallback when it is absent or the empty string; the      *)
(* result set is empty and loading false.                                  *)
(***************************************************************************)
C6_NonEmptyMessageShown ==
    [][ \A i \in InFlight :
          (Resolves(i) /\ AnswersNoResultsField(calls[i]) /\ ~overlapped) =>
              /\ error' = IF /\ calls[i].resp.body.hasMessage
                             /\ calls[i].resp.body.message # ""
                          THEN calls[i].resp.body.message
                          ELSE "No results returned"
              /\ results' = <<>>
              /\ ~loading' ]_vars

C6_Witness ==
    /\ error = "no match" /\ results = <<>> /\ ~loading
    /\ InFlight = {} /\ ~overlapped

OwnView(c) ==
    IF c.pc = "json" /\ c.resp.body.kind = "object"
       /\ c.resp.body.hasResults /\ c.resp.body.results.t = "array"
    THEN [results |-> c.resp.body.results.v, loading |-> FALSE, error |-> ""]
    ELSE [results |-> <<>>, loading |-> FALSE,
          error |-> IF c.pc = "json" /\ c.resp.body.kind = "object"
                    THEN IF c.resp.body.hasMessage /\ c.resp.body.message # ""
                         THEN c.resp.body.message
                         ELSE "No results returned"
                    ELSE "Failed to fetch diagnosis. Please check API connection."]

\* whether a call's own view carries its result set (else its error)
WritesResults(c) == OwnView(c).error = ""

C9_OneCallPerSubmit ==
    [][ /\ issued' = submits'
        /\ PassesValidation =>
              /\ issued' = issued + 1
              /\ DOMAIN calls' = InFlight \cup {issued'}
              /\ calls'[issued'].request.method = "POST"
              /\ calls'[issued'].request.url[2] = "/api/diagnose"
              /\ calls'[issued'].request.body.symptoms = Tokenize(symptoms)
              /\ calls'[issued'].pc = "fetch"
        /\ ~PassesValidation => issued' = issued
        /\ \A i \in InFlight :
              IF i \in DOMAIN calls'
              THEN calls'[i].request = calls[i].request
              ELSE ~Submit /\ DOMAIN calls' = InFlight \ {i} ]_vars

C9_Witness ==
    /\ issued = 2 /\ submits = 2 /\ InFlight = {1, 2}
    /\ calls[1].request.body.symptoms = <<<<"f">>, <<"c">>>>
    /\ calls[2].request.body.symptoms = <<<<"f">>>>

(***************************************************************************)
(* C10: when every issued call eventually settles, loading = true always   *)
(* leads to loading = false, and loading turns from false to true only in  *)
(* a handleDiagnose invocation that passed validation.                     *)
(***************************************************************************)
C10_ReturnsToIdle ==
    /\ loading ~> ~loading
    /\ [][(~loading /\ loading') => PassesValidation]_vars

C10_Witness ==
    /\ ~loading /\ issued = MaxCalls /\ InFlight = {}
    /\ error = "Failed to fetch diagnosis. Please check API connection."

(***************************************************************************)
(* Tokenization on its own: handleDiagnose invoked on every text of Texts  *)
(***************************************************************************)
TokInit ==
    /\ variant \in {"local", "configurable"}
    /\ env \in IF variant = "local" THEN {Unset} ELSE EnvValues
    /\ symptoms \in Texts
    /\ results = <<>>
    /\ loading = FALSE
    /\ error = ""
    /\ calls = << >>
    /\ issued = 0
    /\ submits = 0
    /\ rejected = FALSE
    /\ overlapped = FALSE
    /\ interleaved = FALSE
    /\ twin = NoTwin

TokNext == Submit

TokSpec == TokInit /\ [][TokNext]_vars

\* the reference: a separator is a blank or a comma
IsSeparator(ch) == ch \in {" ", "\t", "\n", ","}

\* positions where a maximal run of non-separators starts
RunStarts(s) ==
    {a \in 1..Len(s) : ~IsSeparator(s[a]) /\ (a = 1 \/ IsSeparator(s[a - 1]))}

\* the last position of the maximal run that starts at a
RunLast(s, a) ==
    CHOOSE b \in a..Len(s) :
        /\ \A k \in a..b : ~IsSeparator(s[k])
        /\ b = Len(s) \/ IsSeparator(s[b + 1])

RECURSIVE RunsFrom(_, _)
RunsFrom(s, starts) ==
    IF starts = {} THEN <<>>
    ELSE LET a == CHOOSE x \in starts : \A y \in starts : x <= y
         IN  <<SubSeq(s, a, RunLast(s, a))>> \o RunsFrom(s, starts \ {a})

\* the maximal runs of non-separators of s, left to right
MaximalRuns(s) == RunsFrom(s, RunStarts(s))

(***************************************************************************)
(* C11: the tokens handleDiagnose sends are exactly the maximal runs of    *)
(* characters that are neither blank nor comma, left to right (and the     *)
(* validation error is raised exactly when there is no such run); every    *)
(* token is non-empty and holds no blank and no comma.                     *)
(***************************************************************************)
C11_TokensAreMaximalRuns ==
    [][ Submit =>
          IF MaximalRuns(symptoms) = <<>>
          THEN error' = ValidationMsg /\ calls' = calls
          ELSE LET sent == calls'[issued'].request.body.symptoms
               IN  /\ sent = MaximalRuns(symptoms)
                   /\ \A k \in 1..Len(sent) :
                         /\ Len(sent[k]) > 0
                         /\ \A j \in 1..Len(sent[k]) : ~IsSeparator(sent[k][j]) ]_vars

C11_Witness ==
    /\ symptoms = Example
    /\ 1 \in InFlight
    /\ calls[1].request.body.symptoms =
          << <<"f", "e", "v", "e", "r">>, <<"c", "o", "u", "g", "h">>,
             <<"h", "e", "a", "d", "a", "c", "h", "e">> >>

\* the tokens joined into one text with the separator sep between them
RECURSIVE JoinWith(_, _)
JoinWith(tokens, sep) ==
    IF Len(tokens) = 0 THEN <<>>
    ELSE IF Len(tokens) = 1 THEN tokens[1]
    ELSE tokens[1] \o <<sep>> \o JoinWith(Tail(tokens), sep)

(***************************************************************************)
(* C12: the tokens a call carries, joined with a single space or a single  *)
(* comma and tokenized again, give the same tokens; each single token      *)
(* tokenizes to the one-element sequence holding it.                       *)
(***************************************************************************)
C12_TokenizeIdempotent ==
    \A i \in InFlight :
        LET sent == calls[i].request.body.symptoms
        IN  /\ Tokenize(JoinWith(sent, " ")) = sent
            /\ Tokenize(JoinWith(sent, ",")) = sent
            /\ \A k \in 1..Len(sent) : Tokenize(sent[k]) = <<sent[k]>>

C12_Witness ==
    /\ symptoms = <<"f", ",", "c">>
    /\ 1 \in InFlight
    /\ calls[1].request.body.symptoms = << <<"f">>, <<"c">> >>

(***************************************************************************)
(* The result list: {Math.round((r.confidence || 0) * 100)}%               *)
(*                                                                         *)
(* A JavaScript number is an IEEE 754 binary64 value.  A positive one is   *)
(* [m, x]: m its 53 significand bits, most significant (a 1) first, and    *)
(* its value is 0.m (binary) times 2^x; zero has no bits.  A confidence    *)
(* n stands for the JSON number n / Thousandths.                           *)
(***************************************************************************)
Thousandths == 1000

SignificandBits == 53

Zero == [m |-> <<>>, x |-> 0]

\* 2^k modulo d, by repeated squaring (d * d stays a machine integer)
RECURSIVE Pow2Mod(_, _)
Pow2Mod(k, d) ==
    IF k = 0 THEN 1 % d
    ELSE LET h == Pow2Mod(k \div 2, d)
         IN  IF k % 2 = 0 THEN (h * h) % d ELSE (2 * ((h * h) % d)) % d

\* what is left of n / d after k bits of its binary expansion, 0 < n < d
Remainder(n, d, k) == (n * Pow2Mod(k, d)) % d

\* bit k (k >= 1) of the binary expansion 0.b1 b2 b3 ... of n / d
FractionBit(n, d, k) == IF 2 * Remainder(n, d, k - 1) >= d THEN 1 ELSE 0

\* number of 0 bits that open the binary expansion of n / d
LeadingZeros(n, d) ==
    (CHOOSE k \in 1..64 :
        /\ FractionBit(n, d, k) = 1
        /\ \A j \in 1..(k - 1) : FractionBit(n, d, j) = 0) - 1

\* bits + 1; one bit longer when every bit was 1
IncBits(bits) ==
    LET zeros == {k \in 1..Len(bits) : bits[k] = 0}
    IN  IF zeros = {} THEN <<1>> \o [k \in 1..Len(bits) |-> 0]
        ELSE LET j == CHOOSE k \in zeros : \A i \in zeros : i <= k
             IN  [k \in 1..Len(bits) |->
                     IF k < j THEN bits[k] ELSE IF k = j THEN 1 ELSE 0]

\* round to nearest, ties to even: bits (a 1 first, at least SignificandBits of
\* them) is the exact value 0.bits * 2^x, sticky says that more follows it
RoundToNearestEven(bits, sticky, x) ==
    LET kept  == SubSeq(bits, 1, SignificandBits)
        guard == IF Len(bits) > SignificandBits THEN bits[SignificandBits + 1] ELSE 0
        rest  == \/ sticky
                 \/ \E k \in (SignificandBits + 2)..Len(bits) : bits[k] = 1
        up    == guard = 1 /\ (rest \/ kept[SignificandBits] = 1)
        inc   == IncBits(kept)
    IN  IF ~up THEN [m |-> kept, x |-> x]
        ELSE IF Len(inc) > SignificandBits
             THEN [m |-> SubSeq(inc, 1, SignificandBits), x |-> x + 1]
             ELSE [m |-> inc, x |-> x]

\* JSON.parse of the decimal n / d, 0 <= n <= d: the nearest binary64 value
ToNumber(n, d) ==
    IF n = 0 THEN Zero
    ELSE IF n = d
         THEN [m |-> <<1>> \o [k \in 1..(SignificandBits - 1) |-> 0], x |-> 1]
         ELSE LET z == LeadingZeros(n, d)
              IN  RoundToNearestEven(
                      [k \in 1..(SignificandBits + 1) |-> FractionBit(n, d, z + k)],
                      Remainder(n, d, z + SignificandBits + 1) # 0,
                      0 - z)

\* the significand is handled in three chunks of ChunkBits bits, so that a chunk
\* times a small number stays a machine integer
ChunkBits == 18

\* the natural number v in binary on w bits, most significant bit first
NatBits(v, w) == [k \in 1..w |-> (v \div 2^(w - k)) % 2]

RECURSIVE BitsNat(_)
BitsNat(bits) ==
    IF Len(bits) = 0 THEN 0
    ELSE 2 * BitsNat(SubSeq(bits, 1, Len(bits) - 1)) + bits[Len(bits)]

\* bits without the 0 bits that open it
StripZeros(bits) ==
    LET ones == {k \in 1..Len(bits) : bits[k] = 1}
    IN  IF ones = {} THEN <<>>
        ELSE SubSeq(bits, CHOOSE k \in ones : \A i \in ones : k <= i, Len(bits))

\* the exact product of the integer written by the 53 bits and the natural
\* number c < 2^12, in binary
TimesNat(bits, c) ==
    LET n    == Len(bits)
        lo   == BitsNat(SubSeq(bits, n - ChunkBits + 1, n)) * c
        mid  == BitsNat(SubSeq(bits, n - 2 * ChunkBits + 1, n - ChunkBits)) * c
                    + lo \div 2^ChunkBits
        hi   == BitsNat(SubSeq(bits, 1, n - 2 * ChunkBits)) * c
                    + mid \div 2^ChunkBits
    IN  StripZeros(NatBits(hi, 30)
                     \o NatBits(mid % 2^ChunkBits, ChunkBits)
                     \o NatBits(lo % 2^ChunkBits, ChunkBits))

\* a * c for a binary64 a and a small natural number c: the exact product, rounded
Times(a, c) ==
    IF Len(a.m) = 0 \/ c = 0 THEN Zero
    ELSE LET p == TimesNat(a.m, c)
         IN  RoundToNearestEven(p, FALSE, a.x + Len(p) - SignificandBits)

\* Math.round(a), a >= 0: the nearest integer, a tie goes up
MathRound(a) ==
    IF Len(a.m) = 0 \/ a.x < 0 THEN 0
    ELSE BitsNat(SubSeq(a.m, 1, a.x)) + a.m[a.x + 1]

\* Math.round((r.confidence || 0) * 100)
Percent(r) ==
    MathRound(Times(IF r.hasConfidence
                    THEN ToNumber(r.confidence, Thousandths)
                    ELSE Zero, 100))

\* ({Math.round((r.confidence || 0) * 100)}%)
PercentText(r) == <<Percent(r), "%">>

\* the percentages the result list shows, entry by entry
Rendered == [k \in 1..Len(results) |-> PercentText(results[k])]

\* the result list on its own: one call awaits resp.json(), its 2xx answer
\* carries one entry whose confidence is any number of thousandths, or absent
RenderInit ==
    /\ variant = "local"
    /\ env = Unset
    /\ symptoms = <<"f">>
    /\ results = <<>>
    /\ loading = TRUE
    /\ error = ""
    /\ \E n \in 0..Thousandths, has \in BOOLEAN :
          /\ has \/ n = 0
          /\ calls = (1 :> [request |-> Request(<< <<"f">> >>),
                            pc |-> "json",
                            resp |-> [ok |-> TRUE, status |-> 200, statusText |-> "OK",
                                      body |-> WithResults(JsonArray(
                                          << [disease |-> "flu", matched |-> 1,
                                              total |-> 4, hasConfidence |-> has,
                                              confidence |-> n] >>))]])
    /\ issued = 1
    /\ submits = 1
    /\ rejected = FALSE
    /\ overlapped = FALSE
    /\ interleaved = FALSE
    /\ twin = NoTwin

RenderNext == \E i \in 1..MaxCalls : JsonSettles(i)

RenderSpec == RenderInit /\ [][RenderNext]_vars

\* the reference: the integer nearest to p / q, a tie goes up (p >= 0, q > 0)
RoundHalfUp(p, q) == (2 * p + q) \div (2 * q)

(***************************************************************************)
(* C13: every entry of the result list shows round-half-up of its          *)
(* confidence times 100, the confidence being the number the server sent,  *)
(* and "0%" when it has no confidence.                                     *)
(***************************************************************************)
C13_PercentIsRoundHalfUp ==
    \A k \in 1..Len(results) :
        Rendered[k] =
            << IF results[k].hasConfidence
               THEN RoundHalfUp(results[k].confidence * 100, Thousandths)
               ELSE 0,
               "%" >>

(***************************************************************************)
(* C14: every handleDiagnose invocation clears the previous error and the  *)
(* previous result set before anything else, whatever the state before,    *)
(* whether or not validation then fails and whether or not another call is *)
(* in flight: right after the step the result set is empty, and error is   *)
(* empty or, when validation failed, the validation message just set.      *)
(***************************************************************************)
C14_SubmitClearsFirst ==
    [][ (ValidationFails \/ PassesValidation) =>
          /\ results' = <<>>
          /\ error' = IF Len(Tokenize(symptoms)) = 0
                      THEN "Please enter at least one symptom."
                      ELSE "" ]_vars

C14_Witness ==
    /\ error = "Please enter at least one symptom."
    /\ results = <<>>
    /\ interleaved /\ InFlight # {}
    /\ issued = MaxCalls

\* what the else branch shows for the parsed object data
ElseBranchError(data) ==
    IF data.hasMessage /\ data.message # "" THEN data.message
    ELSE "No results returned"

(***************************************************************************)
(* C15 as claimed: when a call that ran undisturbed ends with a 2xx        *)
(* response whose JSON object has a results field, the result set becomes  *)
(* that field's value and error stays empty, whatever the value (the empty *)
(* array, null); the error branch is taken only when the field is absent.  *)
(***************************************************************************)
C15_ResultsFieldAlwaysStored ==
    [][ \A i \in InFlight :
          LET data == calls[i].resp.body
          IN  (/\ Resolves(i) /\ ~interleaved
               /\ calls[i].pc = "json" /\ calls[i].resp.ok /\ data.kind = "object") =>
                  IF data.hasResults
                  THEN results' = data.results.v /\ error' = ""
                  ELSE results' = <<>> /\ error' = ElseBranchError(data) ]_vars

(***************************************************************************)
(* C15 as the code has it: the test is the truthiness of the field.  Every *)
(* array, the empty one too, becomes the result set verbatim with error    *)
(* left empty; a results field holding null takes the error branch exactly *)
(* as an absent field does (the message, or "No results returned").        *)
(***************************************************************************)
C15_ArraysStoredNullRefused ==
    [][ \A i \in InFlight :
          LET data == calls[i].resp.body
          IN  (/\ Resolves(i) /\ ~interleaved
               /\ calls[i].pc = "json" /\ calls[i].resp.ok /\ data.kind = "object") =>
                  IF data.hasResults /\ data.results.t = "array"
                  THEN results' = data.results.v /\ error' = ""
                  ELSE results' = <<>> /\ error' = ElseBranchError(data) ]_vars

\* an undisturbed call has ended and left neither results nor error: its
\* answer was the empty array
C15_Witness ==
    /\ results = <<>> /\ error = "" /\ ~loading
    /\ InFlight = {} /\ issued = 1 /\ ~interleaved

(***************************************************************************)
(* C16: loading turns from false to true only in a handleDiagnose          *)
(* invocation whose input has at least one token (the step that issues a   *)
(* call); the end of a call, a change of the input and an invocation that  *)
(* fails validation never set loading to true; and loading has the two     *)
(* values idle and loading only, a call being nowhere but at one of the    *)
(* handler's three awaits (no cancelled, no timed-out call).               *)
(***************************************************************************)
C16_LoadingOnlyViaFreshSubmit ==
    /\ [](loading \in BOOLEAN)
    /\ [](\A i \in InFlight : calls[i].pc \in {"fetch", "text", "json"})
    /\ [][ (~loading /\ loading') =>
             /\ PassesValidation
             /\ Len(Tokenize(symptoms)) > 0
             /\ issued' = issued + 1 /\ issued' \in DOMAIN calls' ]_vars
    /\ [][ (\E i \in InFlight : Resolves(i)) => ~loading' ]_vars
    /\ [][ (symptoms' # symptoms) => loading' = loading ]_vars
    /\ [][ ValidationFails => loading' = loading ]_vars

\* a first call has ended and a second handleDiagnose invocation has set
\* loading again
C16_Witness ==
    /\ loading /\ issued = 2 /\ InFlight = {2} /\ ~overlapped
    /\ calls[2].pc = "fetch"

(***************************************************************************)
(* C17: a change of the input stores the new text as it is and touches     *)
(* nothing else: error, result set and loading stay, no call is issued and *)
(* no call in flight changes.  The symptoms a call carries are those of    *)
(* its handleDiagnose invocation for as long as it is in flight, and when  *)
(* an undisturbed call ends after the input was changed, the view is the   *)
(* one the call produces on its own and the input stays as typed.          *)
(***************************************************************************)
C17_UpdateInputTouchesOnlyInput ==
    /\ [][ \A text \in Inputs : UpdateInput(text) => symptoms' = text ]_vars
    /\ [][ (symptoms' # symptoms) =>
             /\ symptoms' \in Inputs
             /\ results' = results /\ error' = error /\ loading' = loading
             /\ calls' = calls /\ issued' = issued /\ submits' = submits ]_vars
    /\ [][ \A i \in InFlight \cap DOMAIN calls' :
             calls'[i].request = calls[i].request ]_vars
    /\ [][ \A i \in InFlight :
             (/\ Resolves(i) /\ ~interleaved
              /\ Tokenize(symptoms) # calls[i].request.body.symptoms) =>
                 /\ View' = OwnView(calls[i])
                 /\ symptoms' = symptoms ]_vars

\* the input was emptied while the call it started is in flight
C17_Witness ==
    /\ InFlight = {1} /\ calls[1].pc = "json" /\ ~interleaved
    /\ symptoms = <<>>
    /\ calls[1].request.body.symptoms # <<>>
    /\ loading /\ error = "" /\ results = <<>>

(***************************************************************************)
(* The two variants side by side: the configurable variant runs in the     *)
(* state variables, the local variant in twin, on the same input texts,    *)
(* handleDiagnose invocations and server outcomes.                         *)
(***************************************************************************)
PairInit ==
    /\ variant = "configurable"
    /\ env \in EnvValues
    /\ symptoms = <<>>
    /\ results = <<>>
    /\ loading = FALSE
    /\ error = ""
    /\ calls = << >>
    /\ issued = 0
    /\ submits = 0
    /\ rejected = FALSE
    /\ overlapped = FALSE
    /\ interleaved = FALSE
    /\ twin = LocalInit

PairSpec == PairInit /\ [][Next]_vars

\* the two runs show the same (error, result set, loading)
SameView == twin.view = View

\* the two runs have issued the same calls, the base address apart, and each
\* pending call waits at the same await with the same response
SameCalls ==
    /\ twin.issued = issued
    /\ DOMAIN twin.calls = InFlight
    /\ \A i \in InFlight :
          /\ [twin.calls[i].request EXCEPT !.url = calls[i].request.url]
                 = calls[i].request
          /\ twin.calls[i].request.url[2] = calls[i].request.url[2]
          /\ twin.calls[i].pc = calls[i].pc
          /\ twin.calls[i].resp = calls[i].resp

\* the latest handleDiagnose invocation ended the same way in both runs
SameCompletion == twin.rejected = rejected

(***************************************************************************)
(* C18: run side by side on the same events, the two variants show the     *)
(* same view at every step, issue the same calls apart from the base       *)
(* address, and every handleDiagnose invocation completes the same way in  *)
(* both, the validation-failure path included.                             *)
(***************************************************************************)
C18_VariantsBehaveAlike ==
    twin.on => (SameView /\ SameCalls /\ SameCompletion)
====
